---------------------------- MODULE Spec2Model ----------------------------
(***************************************************************************)
(* Model of the Solscan tool server (src/server.py): the tool catalog      *)
(* returned by handle_list_tools, the dispatcher handle_call_tool and the  *)
(* request helper make_solscan_request.                                    *)
(*                                                                         *)
(* A call is a coroutine.  It is cut where it can be suspended: entering   *)
(* the `async with httpx.AsyncClient()` block, inside                      *)
(* `await client.get(...)` while it waits for the response and again while *)
(* it reads the body, and inside __aexit__ of the block.  Everything       *)
(* between two such points is one atomic action, as it is under the        *)
(* asyncio event loop.                                                     *)
(*                                                                         *)
(* Python values are tagged records of one shape, strings are TLA+         *)
(* strings.  repr() of a string chooses its quote and escapes the quote,   *)
(* the backslash and the control characters as Python does; the strings of *)
(* the model are made of printable ASCII, tab, newline, form feed and      *)
(* carriage return.                                                        *)
(***************************************************************************)
EXTENDS Integers, Sequences, FiniteSets, TLC

(***************************************************************************)
(* Bounds of the model.                                                    *)
(***************************************************************************)
NCalls == 2
MaxInt == 1

Calls == 1..NCalls
\* the call the single-call specification runs
FirstCall == CHOOSE c \in Calls : \A d \in Calls : c <= d

(***************************************************************************)
(* Python values.                                                          *)
(***************************************************************************)
PyNone == [t |-> "none", i |-> 0, s |-> "", kv |-> <<>>]
PyInt(n) == [t |-> "int", i |-> n, s |-> "", kv |-> <<>>]
PyBool(b) == [t |-> "bool", i |-> IF b THEN 1 ELSE 0, s |-> "", kv |-> <<>>]
PyStr(x) == [t |-> "str", i |-> 0, s |-> x, kv |-> <<>>]
PyDict(items) == [t |-> "dict", i |-> 0, s |-> "", kv |-> items]
PyList(items) == [t |-> "list", i |-> 0, s |-> "", kv |-> items]
Item(key, val) == [k |-> key, v |-> val]

\* bool(v): Python truthiness, the negation of `not v`
truthy(v) ==
    CASE v.t = "none" -> FALSE
      [] v.t = "int" -> v.i # 0
      [] v.t = "bool" -> v.i = 1
      [] v.t = "str" -> v.s # ""
      [] OTHER -> Len(v.kv) > 0

\* `key in d`
HasKey(d, key) == \E j \in 1..Len(d.kv) : d.kv[j].k = key
\* d[key]
GetItem(d, key) == d.kv[CHOOSE j \in 1..Len(d.kv) : d.kv[j].k = key].v
\* `d.get(key) or default`
get_OrDefault(d, key, default) ==
    IF HasKey(d, key) /\ truthy(GetItem(d, key)) THEN GetItem(d, key)
    ELSE default

\* d.get(key, default)
get(d, key, default) == IF HasKey(d, key) THEN GetItem(d, key) ELSE default

\* `ch in s`, for a character ch
Contains(s, ch) == \E j \in 1..Len(s) : SubSeq(s, j, j) = ch

\* the quote repr() puts around a string: the double quote when the string
\* holds a single quote and no double quote, else the single quote
Quote(s) == IF Contains(s, "'") /\ ~Contains(s, "\"") THEN "\"" ELSE "'"

\* one character as repr() writes it between quotes q
EscapeChar(ch, q) ==
    CASE ch = "\\" -> "\\\\"
      [] ch = q -> "\\" \o q
      [] ch = "\n" -> "\\n"
      [] ch = "\r" -> "\\r"
      [] ch = "\t" -> "\\t"
      [] ch = "\f" -> "\\x0c"
      [] OTHER -> ch

\* the characters lo..hi of s as repr() writes them between quotes q (the
\* range is halved so that the evaluation stays shallow)
RECURSIVE EscapeRange(_, _, _, _)
EscapeRange(s, q, lo, hi) ==
    IF lo > hi THEN ""
    ELSE IF lo = hi THEN EscapeChar(SubSeq(s, lo, lo), q)
    ELSE EscapeRange(s, q, lo, (lo + hi) \div 2)
         \o EscapeRange(s, q, (lo + hi) \div 2 + 1, hi)

\* the characters of s as repr() writes them between quotes q
Escape(s, q) == EscapeRange(s, q, 1, Len(s))

\* repr() of a str
repr_str(s) ==
    IF Quote(s) = "\"" THEN "\"" \o Escape(s, "\"") \o "\""
    ELSE "'" \o Escape(s, "'") \o "'"

RECURSIVE repr(_)
RECURSIVE JoinItems(_, _)
JoinItems(items, isDict) ==
    IF Len(items) = 0 THEN ""
    ELSE LET one == IF isDict
                    THEN repr_str(items[1].k) \o ": " \o repr(items[1].v)
                    ELSE repr(items[1].v)
         IN  IF Len(items) = 1 THEN one
             ELSE one \o ", " \o JoinItems(Tail(items), isDict)
repr(v) ==
    CASE v.t = "none" -> "None"
      [] v.t = "int" -> ToString(v.i)
      [] v.t = "bool" -> IF v.i = 1 THEN "True" ELSE "False"
      [] v.t = "str" -> repr_str(v.s)
      [] v.t = "dict" -> "{" \o JoinItems(v.kv, TRUE) \o "}"
      [] OTHER -> "[" \o JoinItems(v.kv, FALSE) \o "]"

\* str(v), also the conversion an f-string applies to `{v}`
str(v) == IF v.t = "str" THEN v.s ELSE repr(v)

(***************************************************************************)
(* Module-level configuration.                                             *)
(***************************************************************************)
API_BASE == "pro-api.solscan.io"
API_TOKEN == "test-token"
TIMEOUT == 10

(***************************************************************************)
(* handle_list_tools: the tool catalog.  A property is its name, the       *)
(* default, minimum and maximum of its schema (PyNone when not declared)   *)
(* and its enum (empty when not declared).                                 *)
(***************************************************************************)
Prop(n, d, lo, hi, e) ==
    [name |-> n, default |-> d, minimum |-> lo, maximum |-> hi, enum |-> e]
AddressProp == Prop("address", PyNone, PyNone, PyNone, <<>>)
PageProp == Prop("page", PyInt(1), PyInt(1), PyNone, <<>>)
PageSizeProp == Prop("page_size", PyInt(10), PyInt(1), PyInt(100), <<>>)

handle_list_tools ==
    << [name |-> "get-sol-token-price",
        properties |-> <<AddressProp>>,
        required |-> <<"address">>],
       [name |-> "get-latest-blocks",
        properties |-> <<Prop("limit", PyInt(10), PyInt(1), PyInt(100), <<>>)>>,
        required |-> <<>>],
       [name |-> "get-account-info",
        properties |-> <<AddressProp, PageProp, PageSizeProp>>,
        required |-> <<"address">>],
       [name |-> "get-account-activities",
        properties |-> <<AddressProp, PageProp, PageSizeProp,
                         Prop("sort_by", PyStr("block_time"), PyNone, PyNone,
                              <<"block_time">>),
                         Prop("sort_order", PyStr("desc"), PyNone, PyNone,
                              <<"asc", "desc">>)>>,
        required |-> <<"address">>],
       [name |-> "get-token-info",
        properties |-> <<AddressProp>>,
        required |-> <<"address">>] >>

Range(f) == {f[j] : j \in 1..Len(f)}
CatalogNames == {d.name : d \in Range(handle_list_tools)}
Descriptor(n) == CHOOSE d \in Range(handle_list_tools) : d.name = n
\* the property `p` of the catalog descriptor of tool `n`
SchemaProp(n, p) == CHOOSE q \in Range(Descriptor(n).properties) : q.name = p
HasProp(n, p) == \E q \in Range(Descriptor(n).properties) : q.name = p

(***************************************************************************)
(* handle_call_tool, the part that touches no state: the branch of the     *)
(* if/elif chain a name selects, the validation of that branch, the URL it *)
(* builds and the text it returns for an empty result.                     *)
(***************************************************************************)
\* the names the if/elif chain compares `name` with
BranchNames ==
    {"get-sol-token-price", "list-sol-tokens", "get-token-market",
     "get-latest-blocks", "get-account-info", "get-account-activities",
     "get-token-info"}

\* the branches that start with the `address` check
ChecksAddress ==
    {"get-sol-token-price", "get-token-market", "get-account-info",
     "get-account-activities", "get-token-info"}

\* the check without its second half
AddressMissing_NoKeyTest(arguments) == ~truthy(arguments)

\* `not arguments or "address" not in arguments`
AddressMissing(arguments) ==
    ~truthy(arguments) \/ ~HasKey(arguments, "address")

\* `arguments.get(key, default) if arguments else default`
GetIfArguments(arguments, key, default) ==
    IF truthy(arguments) THEN get(arguments, key, default) ELSE default

V2 == "https://" \o API_BASE \o "/v2.0/"

BuildUrl(name, arguments) ==
    CASE name = "get-sol-token-price" ->
           V2 \o "token/price?address=" \o str(GetItem(arguments, "address"))
      [] name = "list-sol-tokens" ->
           V2 \o "token/list?page="
              \o str(GetIfArguments(arguments, "page", PyInt(1)))
              \o "&page_size="
              \o str(GetIfArguments(arguments, "page_size", PyInt(10)))
      [] name = "get-token-market" ->
           V2 \o "token/market?address=" \o str(GetItem(arguments, "address"))
      [] name = "get-latest-blocks" ->
           V2 \o "block/last?limit="
              \o str(GetIfArguments(arguments, "limit", PyInt(10)))
      [] name = "get-account-info" ->
           V2 \o "account/token-accounts?address="
              \o str(GetItem(arguments, "address"))
              \o "&type=token&page=" \o str(get(arguments, "page", PyInt(1)))
              \o "&page_size=" \o str(get(arguments, "page_size", PyInt(10)))
      [] name = "get-account-activities" ->
           V2 \o "account/defi/activities"
              \o "?address=" \o str(GetItem(arguments, "address"))
              \o "&page=" \o str(get(arguments, "page", PyInt(1)))
              \o "&page_size=" \o str(get(arguments, "page_size", PyInt(10)))
              \o "&sort_by="
              \o str(get(arguments, "sort_by", PyStr("block_time")))
              \o "&sort_order="
              \o str(get(arguments, "sort_order", PyStr("desc")))
      [] OTHER ->
           V2 \o "token/meta?address=" \o str(GetItem(arguments, "address"))

\* the text returned when `not <result>` holds
FailedText(name) ==
    CASE name = "get-sol-token-price" -> "Failed to retrieve token price data"
      [] name = "list-sol-tokens" -> "Failed to retrieve token list data"
      [] name = "get-token-market" -> "Failed to retrieve token market data"
      [] name = "get-latest-blocks" -> "Failed to retrieve latest blocks data"
      [] name = "get-account-info" -> "Failed to retrieve account tokens data"
      [] name = "get-account-activities" ->
           "Failed to retrieve account activities data"
      [] OTHER -> "Failed to retrieve token metadata"

AddressRequiredText == "Address parameter is required"

TextContent(x) == [type |-> "text", text |-> x]

\* the test of the result inverted
ResultResponse_Inverted(name, result) ==
    IF truthy(result) THEN <<TextContent(FailedText(name))>>
    ELSE <<TextContent(str(result))>>

\* the result formatted with repr() instead of str()
ResultResponse_Repr(name, result) ==
    IF ~truthy(result) THEN <<TextContent(FailedText(name))>>
    ELSE <<TextContent(repr(result))>>

\* the return statement that follows `await make_solscan_request(...)`
ResultResponse(name, result) ==
    IF ~truthy(result) THEN <<TextContent(FailedText(name))>>
    ELSE <<TextContent(str(result))>>

\* the ValueError of the else branch
UnknownToolError(name) == "Unknown tool: " \o name

\* an except clause that returns None
ErrorResult_None(msg) == PyNone

\* the dict make_solscan_request returns from its except clause
ErrorResult(msg) == PyDict(<<Item("error", PyStr(msg))>>)

\* the headers make_solscan_request sends
Headers == PyDict(<<Item("token", PyStr(API_TOKEN))>>)

(***************************************************************************)
(* What httpx does inside `await client.get(...)` and in                   *)
(* response.raise_for_status(), as far as the log and the result show it.  *)
(***************************************************************************)
\* the status line and the Location header of a response; location is None
\* when the header is absent
ResponseHead(v, st, r, loc) ==
    [version |-> v, status |-> st, reason |-> r, location |-> loc]
NoHead == ResponseHead("", 0, "", PyNone)

\* one character of a URL as httpx.URL writes it: it escapes the space,
\* the double quote, < and >, in the query and in the fragment alike
EncodeChar(ch) ==
    CASE ch = " " -> "%20"
      [] ch = "\"" -> "%22"
      [] ch = "<" -> "%3C"
      [] ch = ">" -> "%3E"
      [] OTHER -> ch

\* the characters lo..hi of a URL as httpx.URL writes them
RECURSIVE EncodeRange(_, _, _)
EncodeRange(url, lo, hi) ==
    IF lo > hi THEN ""
    ELSE IF lo = hi THEN EncodeChar(SubSeq(url, lo, lo))
    ELSE EncodeRange(url, lo, (lo + hi) \div 2)
         \o EncodeRange(url, (lo + hi) \div 2 + 1, hi)

\* str(request.url): the URL the code passed to client.get, parsed and
\* written again by httpx.  Of the URLs of this program (printable ASCII,
\* the arguments after the ?) it changes the escaped characters only; a #
\* starts the fragment and stays.
RequestUrl(url) == EncodeRange(url, 1, Len(url))

\* the line httpx itself logs, at INFO on its logger `httpx`, inside
\* client.get as soon as the status line and the headers of a response have
\* arrived; the root handler writes it to the same file
HttpxLines(c, url, h) ==
    << [call |-> c, level |-> "INFO", ev |-> "http",
        msg |-> "HTTP Request: GET " \o RequestUrl(url) \o " \"" \o h.version
                \o " " \o ToString(h.status) \o " " \o h.reason \o "\""] >>

\* Response.is_success
is_success(status) == status >= 200 /\ status <= 299

\* Response.has_redirect_location
has_redirect_location(h) ==
    h.status \in {301, 302, 303, 307, 308} /\ h.location # PyNone

\* the error type raise_for_status names for a status class
ErrorType(status) ==
    CASE status \div 100 = 1 -> "Informational response"
      [] status \div 100 = 3 -> "Redirect response"
      [] status \div 100 = 4 -> "Client error"
      [] status \div 100 = 5 -> "Server error"
      [] OTHER -> "Invalid status code"

\* str(e) of the HTTPStatusError response.raise_for_status() raises for a
\* response that is not a success: httpx writes it from the status line,
\* the URL of the request and, for a redirect, the Location header
raise_for_status(h, url) ==
    ErrorType(h.status) \o " '" \o ToString(h.status) \o " " \o h.reason
    \o "' for url '" \o RequestUrl(url) \o "'\n"
    \o (IF has_redirect_location(h)
        THEN "Redirect location: '" \o h.location.s \o "'\n" ELSE "")
    \o "For more information check: "
    \o "https://developer.mozilla.org/en-US/docs/Web/HTTP/Status/"
    \o ToString(h.status)

(***************************************************************************)
(* State.  Every call c has its own frame; the log sink and the set of     *)
(* open HTTP clients are shared.                                           *)
(*   pc         where the coroutine of the call stands:                    *)
(*                idle      not called yet                                 *)
(*                enter     validated, before the `async with`             *)
(*                awaiting  in client.get, no response yet                 *)
(*                reading   in client.get, status line and headers         *)
(*                          received, the body being read                  *)
(*                exit      in __aexit__ of the client, which is closed    *)
(*                done      returned or raised                             *)
(*   name, arguments   the parameters of handle_call_tool                  *)
(*   client     the AsyncClient the call created (0: none)                 *)
(*   open       the clients that are open                                  *)
(*   request    the GET the call issued                                    *)
(*   gets       the number of GETs the call issued                         *)
(*   head       the status line and Location header the call received      *)
(*   reply      how the GET ended                                          *)
(*   result     the value make_solscan_request returned                    *)
(*   response   the list handle_call_tool returns                          *)
(*   raised     the message of the exception handle_call_tool raised       *)
(*   log        the lines of solscan_api.log, each tagged with its call    *)
(***************************************************************************)
VARIABLES pc, name, arguments, client, open, request, gets, head, reply,
          result, response, raised, log

vars == <<pc, name, arguments, client, open, request, gets, head, reply,
          result, response, raised, log>>

NoRequest == [client |-> 0, url |-> "", headers |-> PyNone, timeout |-> 0]
Reply(k, st, b, m) == [kind |-> k, status |-> st, body |-> b, msg |-> m]
NoReply == Reply("none", 0, PyNone, "")

Init ==
    /\ pc = [c \in Calls |-> "idle"]
    /\ name = [c \in Calls |-> ""]
    /\ arguments = [c \in Calls |-> PyNone]
    /\ client = [c \in Calls |-> 0]
    /\ open = {}
    /\ request = [c \in Calls |-> NoRequest]
    /\ gets = [c \in Calls |-> 0]
    /\ head = [c \in Calls |-> NoHead]
    /\ reply = [c \in Calls |-> NoReply]
    /\ result = [c \in Calls |-> PyNone]
    /\ response = [c \in Calls |-> <<>>]
    /\ raised = [c \in Calls |-> ""]
    /\ log = <<>>

\* one line of the log: logging.info / logging.error of message `m`
LogLine(c, lvl, e, m) == [call |-> c, level |-> lvl, ev |-> e, msg |-> m]

\* logging.info(f"Tool called: {name}"); logging.info(f"Arguments: {arguments}")
CallLines(c, n, a) ==
    << LogLine(c, "INFO", "tool", "Tool called: " \o n),
       LogLine(c, "INFO", "arguments", "Arguments: " \o str(a)) >>

\* logging.info(f"Request URL: {url}"); logging.info(f"Request Headers: {headers}")
RequestLines(c, url) ==
    << LogLine(c, "INFO", "url", "Request URL: " \o url),
       LogLine(c, "INFO", "headers", "Request Headers: " \o str(Headers)) >>

\* the two logging.info calls that follow response.json()
ResponseLines(c, status, body) ==
    << LogLine(c, "INFO", "status", "Response Status: " \o ToString(status)),
       LogLine(c, "INFO", "data", "Response Data: " \o str(body)) >>

\* an except clause that logs nothing
ErrorLines_Silent(c, msg) == <<>>

\* logging.error(f"Request failed: {str(e)}")
ErrorLines(c, msg) ==
    << LogLine(c, "ERROR", "error", "Request failed: " \o msg) >>

\* a new httpx.AsyncClient(): an object no call has held before
NewClient == 1 + Cardinality({c \in Calls : client[c] # 0})

(***************************************************************************)
(* handle_call_tool, from its entry to its first await: the two log lines, *)
(* the if/elif chain and the validation of the selected branch.            *)
(***************************************************************************)
CallTool(c, n, a) ==
    /\ pc[c] = "idle"
    /\ name' = [name EXCEPT ![c] = n]
    /\ arguments' = [arguments EXCEPT ![c] = a]
    /\ log' = log \o CallLines(c, n, a)
    /\ IF n \notin BranchNames
       THEN /\ raised' = [raised EXCEPT ![c] = UnknownToolError(n)]
            /\ pc' = [pc EXCEPT ![c] = "done"]
            /\ UNCHANGED response
       ELSE IF n \in ChecksAddress /\ AddressMissing(a)
       THEN /\ response' =
                  [response EXCEPT ![c] = <<TextContent(AddressRequiredText)>>]
            /\ pc' = [pc EXCEPT ![c] = "done"]
            /\ UNCHANGED raised
       ELSE /\ pc' = [pc EXCEPT ![c] = "enter"]
            /\ UNCHANGED <<response, raised>>
    /\ UNCHANGED <<client, open, request, gets, head, reply, result>>

(***************************************************************************)
(* `async with httpx.AsyncClient() as client:` is entered, the URL is      *)
(* built and make_solscan_request runs up to `await client.get(...)`.      *)
(***************************************************************************)
EnterClient(c) ==
    /\ pc[c] = "enter"
    /\ LET id == NewClient
           url == BuildUrl(name[c], arguments[c])
       IN  /\ client' = [client EXCEPT ![c] = id]
           /\ open' = open \cup {id}
           /\ log' = log \o RequestLines(c, url)
           /\ request' = [request EXCEPT ![c] =
                  [client |-> id, url |-> url, headers |-> Headers,
                   timeout |-> TIMEOUT]]
    /\ gets' = [gets EXCEPT ![c] = @ + 1]
    /\ pc' = [pc EXCEPT ![c] = "awaiting"]
    /\ UNCHANGED <<name, arguments, head, reply, result, response, raised>>

(***************************************************************************)
(* The status line and the headers of a response arrive: httpx logs its    *)
(* line and client.get goes on to read the body.                           *)
(***************************************************************************)
ResponseArrives(c, rep) ==
    /\ pc[c] = "awaiting"
    /\ rep.kind \notin {"connect", "timeout"}
    /\ head' = [head EXCEPT ![c] = rep.head]
    /\ \E lines \in {HttpxLines(c, request[c].url, rep.head)} :
          log' = log \o lines
    /\ pc' = [pc EXCEPT ![c] = "reading"]
    /\ UNCHANGED <<name, arguments, client, open, request, gets, reply,
                   result, response, raised>>

\* make_solscan_request returns `value`; handle_call_tool builds its return
\* value and leaves the `async with` block: __aexit__ closes the client and
\* awaits the transport
Returns(c, rep, value, lines) ==
    /\ reply' = [reply EXCEPT ![c] = rep]
    /\ result' = [result EXCEPT ![c] = value]
    /\ log' = log \o lines
    /\ response' = [response EXCEPT ![c] = ResultResponse(name[c], value)]
    /\ open' = open \ {client[c]}
    /\ pc' = [pc EXCEPT ![c] = "exit"]
    /\ UNCHANGED <<name, arguments, client, request, gets, head, raised>>

\* an except clause that swallows the failure and waits for a reply again
Except_Loop(c, rep) ==
    /\ reply' = [reply EXCEPT ![c] = rep]
    /\ UNCHANGED <<pc, name, arguments, client, open, request, gets, head,
                   result, response, raised, log>>

\* the except clause of make_solscan_request, entered with the exception
\* whose message is rep.msg
Except(c, rep) ==
    Returns(c, rep, ErrorResult(rep.msg), ErrorLines(c, rep.msg))

(***************************************************************************)
(* The ways `await client.get(...)` and the two lines after it end.        *)
(***************************************************************************)
\* client.get raises before any response: no connection (kind "connect") or
\* the timeout elapsed
GetRaises(c, rep) ==
    /\ pc[c] = "awaiting"
    /\ rep.kind \in {"connect", "timeout"}
    /\ Except(c, Reply(rep.kind, 0, PyNone, rep.msg))

\* client.get raises while it reads the body: the connection is lost (kind
\* "connect") or the timeout elapsed
BodyRaises(c, rep) ==
    /\ pc[c] = "reading"
    /\ rep.kind \in {"connect", "timeout"}
    /\ Except(c, Reply(rep.kind, 0, PyNone, rep.msg))

\* the body of a response that is not a success was read: raise_for_status
\* raises
StatusRaises(c) ==
    /\ pc[c] = "reading"
    /\ ~is_success(head[c].status)
    /\ \E msg \in {raise_for_status(head[c], request[c].url)} :
          Except(c, Reply("status", head[c].status, PyNone, msg))

\* the body of a success response was read and is not JSON: response.json()
\* raises
JsonRaises(c, rep) ==
    /\ pc[c] = "reading"
    /\ is_success(head[c].status)
    /\ rep.head = head[c]
    /\ rep.kind = "json"
    /\ Except(c, Reply("json", head[c].status, PyNone, rep.msg))

\* the body of a success response was read and is JSON
GetSucceeds(c, rep) ==
    /\ pc[c] = "reading"
    /\ is_success(head[c].status)
    /\ rep.head = head[c]
    /\ rep.kind = "ok"
    /\ Returns(c, Reply("ok", head[c].status, rep.body, ""), rep.body,
               ResponseLines(c, head[c].status, rep.body))

(***************************************************************************)
(* __aexit__ of the client ends and handle_call_tool returns its response. *)
(***************************************************************************)
ExitClient(c) ==
    /\ pc[c] = "exit"
    /\ pc' = [pc EXCEPT ![c] = "done"]
    /\ UNCHANGED <<name, arguments, client, open, request, gets, head, reply,
                   result, response, raised, log>>

(***************************************************************************)
(* Inputs.  The callers choose the tool name and the arguments, the        *)
(* upstream chooses the exchange.                                          *)
(***************************************************************************)
\* names the dispatcher has a branch for, one that is commented out in the
\* dispatcher and one nobody ever defined
ToolNames == BranchNames \cup {"get-trending-tokens", "no-such-tool"}

Opt(key, vals) == {<<>>} \cup {<<Item(key, v)>> : v \in vals}
OverMaximum(tool, p) == PyInt(SchemaProp(tool, p).maximum.i + 1)

\* None, {} and the mappings over the parameter names of the catalog, with
\* values inside and outside the declared ranges and enums; one address
\* holds characters httpx escapes and a #
ArgumentValues ==
    {PyNone} \cup
    { PyDict(a \o p \o ps \o sb \o so \o l) :
        a \in Opt("address", {PyStr("X"), PyStr("it's a<#>")}),
        p \in Opt("page", {PyInt(j) : j \in 0..MaxInt}),
        ps \in Opt("page_size", {OverMaximum("get-account-info", "page_size")}),
        sb \in Opt("sort_by", {PyStr("fee")}),
        so \in Opt("sort_order", {PyStr("up")}),
        l \in Opt("limit",
                  {PyInt(0), OverMaximum("get-latest-blocks", "limit")}) }

\* one exchange with the upstream.  Of kind "connect" or "timeout" it is
\* the exception, with message msg, that ends client.get before a response
\* arrives or while its body is read; of the other kinds it is a response
\* with its head: one that is not a success (kind "status"), or a success
\* and what response.json() makes of its body, the decoded value (kind
\* "ok") or the exception with message msg (kind "json")
Exchange(h, k, b, m) == [head |-> h, kind |-> k, body |-> b, msg |-> m]

Ok200 == ResponseHead("HTTP/1.1", 200, "OK", PyNone)

\* decoded JSON bodies: objects (empty, flat, nested), arrays, null, scalars
JsonBodies ==
    { PyDict(<<>>),
      PyDict(<<Item("success", PyBool(TRUE)),
               Item("data", PyDict(<<Item("price", PyInt(7))>>))>>),
      PyDict(<<Item("error", PyStr("x"))>>),
      PyDict(<<Item("k'q", PyStr("it's")),
               Item("note", PyStr("x\ny\\z \"w\" 'v'"))>>),
      PyList(<<>>),
      PyList(<<Item("", PyInt(7)), Item("", PyStr("q'"))>>),
      PyNone,
      PyInt(0),
      PyBool(FALSE),
      PyStr(""),
      PyStr("ok") }

\* success responses; one comes from an HTTP/1.0 upstream with a reason
\* phrase of its own
OkReplies ==
    {Exchange(Ok200, "ok", b, "") : b \in JsonBodies}
    \cup {Exchange(ResponseHead("HTTP/1.0", 200, "Okay", PyNone), "ok",
                   PyStr("ok"), "")}

\* the ways an exchange fails; the message is str(e) of the exception, for
\* a response that is not a success raise_for_status writes it
Failures ==
    { Exchange(NoHead, "connect", PyNone, "All connection attempts failed"),
      Exchange(NoHead, "timeout", PyNone, ""),
      Exchange(NoHead, "timeout", PyNone, "timed out"),
      Exchange(ResponseHead("HTTP/1.1", 500, "Internal Server Error", PyNone),
               "status", PyNone, ""),
      Exchange(ResponseHead("HTTP/1.1", 404, "Not Found", PyNone),
               "status", PyNone, ""),
      Exchange(ResponseHead("HTTP/1.1", 301, "Moved Permanently",
                    PyStr("https://solscan.io/")), "status", PyNone, ""),
      Exchange(ResponseHead("HTTP/1.1", 302, "Found", PyNone),
               "status", PyNone, ""),
      Exchange(Ok200, "json", PyNone,
               "Expecting value: line 1 column 1 (char 0)") }

Replies == OkReplies \cup Failures

\* the reduced inputs of the concurrent specification: a call that passes
\* validation, one that is rejected, one of a tool the catalog does not list
\* and one of a tool nobody defined
FewCalls ==
    { <<"get-sol-token-price", PyDict(<<Item("address", PyStr("X"))>>)>>,
      <<"get-sol-token-price", PyNone>>,
      <<"list-sol-tokens", PyNone>>,
      <<"no-such-tool", PyNone>> }
FewReplies ==
    { Exchange(Ok200, "ok", PyDict(<<Item("success", PyBool(TRUE))>>), ""),
      Exchange(NoHead, "timeout", PyNone, ""),
      Exchange(ResponseHead("HTTP/1.1", 500, "Internal Server Error", PyNone),
               "status", PyNone, ""),
      Exchange(Ok200, "json", PyNone,
               "Expecting value: line 1 column 1 (char 0)") }

(***************************************************************************)
(* Specifications.                                                         *)
(*   Spec      one call, over the whole input domain                       *)
(*   ConcSpec  NCalls calls that interleave at their await points, over    *)
(*             the reduced input domain; the calls are numbered in the     *)
(*             order they arrive                                           *)
(*   LiveSpec  one call, over every tool name and every exchange, with the *)
(*             event loop resuming every coroutine that can run and the    *)
(*             transport ending every GET it was given                     *)
(***************************************************************************)
Transport(c, RS) ==
    \/ \E rep \in RS : GetRaises(c, rep)
    \/ \E rep \in RS : ResponseArrives(c, rep)
    \/ \E rep \in RS : BodyRaises(c, rep)
    \/ StatusRaises(c)
    \/ \E rep \in RS : JsonRaises(c, rep)
    \/ \E rep \in RS : GetSucceeds(c, rep)

Next ==
    \/ \E n \in ToolNames, a \in ArgumentValues : CallTool(FirstCall, n, a)
    \/ EnterClient(FirstCall)
    \/ Transport(FirstCall, Replies)
    \/ ExitClient(FirstCall)

Spec == Init /\ [][Next]_vars

ConcNext ==
    \E c \in Calls :
        \/ /\ \A d \in Calls : d < c => pc[d] # "idle"
           /\ \E in \in FewCalls : CallTool(c, in[1], in[2])
        \/ EnterClient(c)
        \/ Transport(c, FewReplies)
        \/ ExitClient(c)

ConcSpec == Init /\ [][ConcNext]_vars

\* the arguments of the fair specification: absent, empty, with an address
LiveArguments ==
    {PyNone, PyDict(<<>>), PyDict(<<Item("address", PyStr("it's"))>>)}

LiveNext ==
    \/ \E n \in ToolNames, a \in LiveArguments : CallTool(FirstCall, n, a)
    \/ EnterClient(FirstCall)
    \/ Transport(FirstCall, Replies)
    \/ ExitClient(FirstCall)

LiveSpec ==
    /\ Init /\ [][LiveNext]_vars
    /\ WF_vars(EnterClient(FirstCall))
    /\ WF_vars(Transport(FirstCall, Replies))
    /\ WF_vars(ExitClient(FirstCall))

TypeOK ==
    /\ pc \in [Calls -> {"idle", "enter", "awaiting", "reading", "exit",
                         "done"}]
    /\ \A c \in Calls : gets[c] \in Nat /\ client[c] \in Nat

(***************************************************************************)
(* Properties.                                                             *)
(***************************************************************************)
\* the catalog lists `address` among the required parameters of tool n
RequiresAddress(n) ==
    n \in CatalogNames /\ "address" \in Range(Descriptor(n).required)

\* the arguments are absent, or a mapping without the key `address`
LacksAddress(a) == a = PyNone \/ (a.t = "dict" /\ ~HasKey(a, "address"))

Started(c) == pc[c] # "idle"
Done(c) == pc[c] = "done"
Failed(c) == reply[c].kind \in {"connect", "timeout", "status", "json"}

\* C1: a call of a tool whose catalog schema requires `address`, with the
\* arguments absent, empty or lacking `address`, returns the one text item
\* "Address parameter is required" and issues no GET.
C1_AddressRequired ==
    \A c \in Calls :
        (Started(c) /\ RequiresAddress(name[c]) /\ LacksAddress(arguments[c]))
        => /\ Done(c)
           /\ response[c] = <<[type |-> "text",
                               text |-> "Address parameter is required"]>>
           /\ raised[c] = ""
           /\ gets[c] = 0
           /\ request[c] = NoRequest
           /\ client[c] = 0

\* a tool that requires `address` was called with a non-empty mapping that
\* lacks it, and the call was answered
C1_Witness ==
    \E c \in Calls :
        /\ Done(c)
        /\ name[c] = "get-account-activities"
        /\ arguments[c] = PyDict(<<Item("page", PyInt(0))>>)
        /\ response[c] = <<TextContent(AddressRequiredText)>>

\* C2: a call that names a tool the catalog does not list raises an error:
\* it returns no text response and issues no GET.
C2_UnregisteredRaises ==
    \A c \in Calls :
        (Started(c) /\ name[c] \notin CatalogNames)
        => /\ Done(c)
           /\ raised[c] # ""
           /\ response[c] = <<>>
           /\ gets[c] = 0

\* C3 as stated: a catalog tool whose upstream GET succeeds with a JSON
\* object J returns the one text item str(J), for every object J.
C3_RoundTripEveryObject ==
    \A c \in Calls :
        (Done(c) /\ name[c] \in CatalogNames /\ reply[c].kind = "ok"
           /\ reply[c].body.t = "dict")
        => response[c] = <<[type |-> "text", text |-> str(reply[c].body)]>>

\* C3: a catalog tool whose upstream GET succeeds with a non-empty JSON
\* object J returns the one text item str(J).
C3_RoundTrip ==
    \A c \in Calls :
        (Done(c) /\ name[c] \in CatalogNames /\ reply[c].kind = "ok"
           /\ reply[c].body.t = "dict" /\ Len(reply[c].body.kv) > 0)
        => response[c] = <<[type |-> "text", text |-> str(reply[c].body)]>>

\* a catalog tool relayed a JSON object whose key and values hold quotes, a
\* newline and a backslash
C3_Witness ==
    \E c \in Calls :
        /\ Done(c)
        /\ name[c] = "get-token-info"
        /\ reply[c].kind = "ok"
        /\ response[c] = <<[type |-> "text",
             text |-> "{\"k'q\": \"it's\", 'note': "
                      \o "'x\\ny\\\\z \"w\" \\'v\\''}"]>>

\* C4: every failure of the upstream exchange (no connection, timeout, error
\* status, body that is not JSON) becomes the map {error: message}, the call
\* returns the one text item that is the string form of that map, and
\* handle_call_tool raises nothing.
C4_FailureBecomesErrorText ==
    \A c \in Calls :
        (Failed(c) /\ name[c] \in CatalogNames)
        => /\ pc[c] \in {"exit", "done"}
           /\ result[c] = PyDict(<<Item("error", PyStr(reply[c].msg))>>)
           /\ response[c] = <<[type |-> "text",
                text |-> "{'error': " \o repr_str(reply[c].msg) \o "}"]>>
           /\ raised[c] = ""

\* a catalog tool got HTTP 500 from the upstream and returned
C4_Witness ==
    \E c \in Calls :
        /\ Done(c)
        /\ name[c] = "get-token-info"
        /\ arguments[c] = PyDict(<<Item("address", PyStr("X"))>>)
        /\ reply[c].kind = "status" /\ reply[c].status = 500
        /\ response[c] = <<TextContent(
             "{'error': \"Server error '500 Internal Server Error' for url "
             \o "'https://pro-api.solscan.io/v2.0/token/meta?address=X'"
             \o "\\nFor more information check: https://developer.mozilla.org"
             \o "/en-US/docs/Web/HTTP/Status/500\"}")>>

\* the upstream path of a catalog tool
Path ==
    [n \in CatalogNames |->
        CASE n = "get-sol-token-price" -> "token/price"
          [] n = "get-latest-blocks" -> "block/last"
          [] n = "get-account-info" -> "account/token-accounts"
          [] n = "get-account-activities" -> "account/defi/activities"
          [] OTHER -> "token/meta"]

\* the text of parameter p in the query: the value supplied, else the
\* default the catalog declares
ParamText(a, p) ==
    IF a.t = "dict" /\ HasKey(a, p.name) THEN str(GetItem(a, p.name))
    ELSE str(p.default)

\* the parameters of the schema in their order, `type=token` after the
\* address of get-account-info
RECURSIVE Query(_, _, _)
Query(n, a, props) ==
    IF props = <<>> THEN ""
    ELSE Head(props).name \o "=" \o ParamText(a, Head(props))
         \o (IF n = "get-account-info" /\ Head(props).name = "address"
             THEN "&type=token" ELSE "")
         \o (IF Len(props) > 1 THEN "&" ELSE "")
         \o Query(n, a, Tail(props))

\* C5: the URL of a catalog tool carries, in the fixed order of the tool,
\* every parameter of its schema: with the value supplied, whatever its
\* range or enum, else with the default the catalog declares.
\* get-latest-blocks without `limit` asks for limit=10, and
\* get-account-activities with only address=X asks for
\* address=X&page=1&page_size=10&sort_by=block_time&sort_order=desc.
C5_DefaultsInUrl ==
    \A c \in Calls :
        (request[c] # NoRequest /\ name[c] \in CatalogNames)
        => /\ request[c].url =
                "https://pro-api.solscan.io/v2.0/" \o Path[name[c]] \o "?"
                \o Query(name[c], arguments[c], Descriptor(name[c]).properties)
           /\ (name[c] = "get-latest-blocks"
                 /\ (arguments[c] = PyNone \/ ~HasKey(arguments[c], "limit")))
              => request[c].url =
                   "https://pro-api.solscan.io/v2.0/block/last?limit=10"
           /\ (name[c] = "get-account-activities"
                 /\ arguments[c] = PyDict(<<Item("address", PyStr("X"))>>))
              => request[c].url =
                   "https://pro-api.solscan.io/v2.0/account/defi/activities"
                   \o "?address=X&page=1&page_size=10"
                   \o "&sort_by=block_time&sort_order=desc"

\* get-account-activities was called with a page below the minimum, a
\* page_size above the maximum and a sort_order outside the enum; the other
\* parameter took its default
C5_Witness ==
    \E c \in Calls :
        /\ name[c] = "get-account-activities"
        /\ arguments[c] = PyDict(<<Item("address", PyStr("X")),
                                   Item("page", PyInt(0)),
                                   Item("page_size", PyInt(101)),
                                   Item("sort_order", PyStr("up"))>>)
        /\ request[c].url =
             "https://pro-api.solscan.io/v2.0/account/defi/activities"
             \o "?address=X&page=0&page_size=101"
             \o "&sort_by=block_time&sort_order=up"

\* the call ended in the raise of the else branch
Raised(c) == Done(c) /\ raised[c] # ""
\* the call ended in the validation text, before any upstream exchange
Rejected(c) ==
    /\ Done(c) /\ raised[c] = "" /\ reply[c].kind = "none"
    /\ response[c] = <<[type |-> "text",
                        text |-> "Address parameter is required"]>>
\* the call ended after an upstream exchange
Attempted(c) == Done(c) /\ raised[c] = "" /\ reply[c].kind # "none"

\* the call names a tool the catalog does not list
Unknown(c) == Started(c) /\ name[c] \notin CatalogNames

\* a call issues at most one GET, none before its request and one from then
\* on; a call that ended in the validation text or in the raise of the else
\* branch issued none and a call that ended after an exchange issued one
OneGetPerExchange ==
    \A c \in Calls :
        /\ gets[c] <= 1
        /\ (pc[c] \in {"idle", "enter"}) => gets[c] = 0
        /\ (pc[c] \in {"awaiting", "reading", "exit"}) => gets[c] = 1
        /\ Done(c) => /\ Raised(c) \/ Rejected(c) \/ Attempted(c)
                      /\ (Raised(c) \/ Rejected(c)) => gets[c] = 0
                      /\ Attempted(c) => gets[c] = 1
        /\ (Done(c) /\ name[c] \in CatalogNames
              /\ ~(RequiresAddress(name[c]) /\ LacksAddress(arguments[c])))
           => gets[c] = 1

\* C6: a call that passes validation issues exactly one GET, whether the GET
\* succeeds or fails; a call that is rejected by validation or names a tool
\* the catalog does not list issues none.
C6_ExactlyOneGet ==
    /\ OneGetPerExchange
    /\ \A c \in Calls : Unknown(c) => gets[c] = 0

\* decoded bodies that Python takes for false
FalsyBodies ==
    {PyNone, PyDict(<<>>), PyList(<<>>), PyInt(0), PyBool(FALSE), PyStr("")}

\* the text a catalog tool returns for such a body
EmptyText ==
    [n \in CatalogNames |->
        CASE n = "get-sol-token-price" -> "Failed to retrieve token price data"
          [] n = "get-latest-blocks" -> "Failed to retrieve latest blocks data"
          [] n = "get-account-info" -> "Failed to retrieve account tokens data"
          [] n = "get-account-activities" ->
               "Failed to retrieve account activities data"
          [] OTHER -> "Failed to retrieve token metadata"]

OneText(x) == <<[type |-> "text", text |-> x]>>
ErrorText(c) == "{'error': " \o repr_str(reply[c].msg) \o "}"

\* C7 as stated: a call of a catalog tool ends validation-rejected, or
\* upstream-attempted and then succeeded with the text of the decoded body or
\* failed with the text of the error map; no other text is returned.
C7_TwoOutcomes ==
    \A c \in Calls :
        (Done(c) /\ name[c] \in CatalogNames)
        => /\ raised[c] = ""
           /\ \/ Rejected(c) /\ gets[c] = 0
              \/ /\ Attempted(c) /\ reply[c].kind = "ok"
                 /\ response[c] = OneText(str(reply[c].body))
              \/ /\ Attempted(c) /\ Failed(c)
                 /\ response[c] = OneText(ErrorText(c))

\* C7: a call of a catalog tool ends validation-rejected, or
\* upstream-attempted and then exactly one of: succeeded with the text of
\* the decoded body, empty-result (the decoded body is null, empty, zero or
\* false) with the "Failed to retrieve ..." text of the tool, or failed with
\* the text of the error map.
C7_Outcomes ==
    \A c \in Calls :
        (Done(c) /\ name[c] \in CatalogNames)
        => /\ raised[c] = ""
           /\ \/ Rejected(c) /\ gets[c] = 0
              \/ /\ Attempted(c) /\ reply[c].kind = "ok"
                 /\ reply[c].body \notin FalsyBodies
                 /\ response[c] = OneText(str(reply[c].body))
              \/ /\ Attempted(c) /\ reply[c].kind = "ok"
                 /\ reply[c].body \in FalsyBodies
                 /\ response[c] = OneText(EmptyText[name[c]])
              \/ /\ Attempted(c) /\ Failed(c)
                 /\ response[c] = OneText(ErrorText(c))

\* a catalog tool got an empty array from the upstream and returned
C7_Witness ==
    \E c \in Calls :
        /\ Done(c)
        /\ name[c] = "get-latest-blocks"
        /\ reply[c].kind = "ok" /\ reply[c].body = PyList(<<>>)
        /\ response[c] = OneText("Failed to retrieve latest blocks data")

\* the lines call c appended to the log, in the order of the log
CallLog(c) == SelectSeq(log, LAMBDA e : e.call = c)

Line(c, lvl, e, m) == [call |-> c, level |-> lvl, ev |-> e, msg |-> m]

\* the lines call c must have appended by now: the name and the arguments,
\* for a request the URL and the headers, for a response the line of httpx,
\* and for a GET that has ended the status and the data or the error
ExpectedLog(c) ==
    (IF Started(c)
     THEN << Line(c, "INFO", "tool", "Tool called: " \o name[c]),
             Line(c, "INFO", "arguments",
                  "Arguments: " \o str(arguments[c])) >>
     ELSE <<>>)
    \o (IF gets[c] > 0
        THEN << Line(c, "INFO", "url", "Request URL: " \o request[c].url),
                Line(c, "INFO", "headers",
                     "Request Headers: {'token': "
                     \o repr_str(API_TOKEN) \o "}") >>
        ELSE <<>>)
    \o (IF head[c] # NoHead
        THEN << Line(c, "INFO", "http",
                     "HTTP Request: GET " \o RequestUrl(request[c].url)
                     \o " \"" \o head[c].version \o " "
                     \o ToString(head[c].status) \o " "
                     \o head[c].reason \o "\"") >>
        ELSE <<>>)
    \o (IF reply[c].kind = "ok"
        THEN << Line(c, "INFO", "status",
                     "Response Status: " \o ToString(reply[c].status)),
                Line(c, "INFO", "data",
                     "Response Data: " \o str(reply[c].body)) >>
        ELSE IF Failed(c)
        THEN << Line(c, "ERROR", "error",
                     "Request failed: " \o reply[c].msg) >>
        ELSE <<>>)

\* the lines of call c that handle_call_tool and make_solscan_request wrote
OwnLog(c) == SelectSeq(CallLog(c), LAMBDA e : e.ev # "http")

\* C8: every call, rejected and unknown-tool calls included, has logged the
\* tool name and the arguments when it validates, requests or raises; an
\* upstream exchange has logged the URL and the headers while its GET is in
\* flight and, of its own lines, nothing more; once the GET has ended it has
\* logged the status and the data, or else one error line, never both and
\* never none.  The one other line of a call is the line httpx writes when
\* a response arrives, after the headers and before the status or the error.
C8_LogOrdering ==
    \A c \in Calls :
        /\ CallLog(c) = ExpectedLog(c)
        /\ (pc[c] \in {"awaiting", "reading"})
           => /\ gets[c] > 0 /\ reply[c].kind = "none"
              /\ Len(OwnLog(c)) = 4
              /\ OwnLog(c)[3].ev = "url" /\ OwnLog(c)[4].ev = "headers"
        /\ (pc[c] = "awaiting") => head[c] = NoHead
        /\ (pc[c] = "reading") => head[c] # NoHead
        /\ (pc[c] \in {"exit", "done"} /\ gets[c] > 0)
           => /\ reply[c].kind # "none"
              /\ \/ /\ Len(OwnLog(c)) = 6
                    /\ OwnLog(c)[5].ev = "status" /\ OwnLog(c)[6].ev = "data"
                    /\ reply[c].kind = "ok"
                 \/ /\ Len(OwnLog(c)) = 5
                    /\ OwnLog(c)[5].ev = "error"
                    /\ Failed(c)
        /\ (Started(c) /\ gets[c] = 0)
           => /\ Len(CallLog(c)) = 2
              /\ CallLog(c)[1].ev = "tool" /\ CallLog(c)[2].ev = "arguments"

\* two calls whose lines interleave in the log have returned: one after a
\* successful exchange, the other after a timeout that struck while the body
\* of its response was read, the line of httpx before its error line
C8_Witness ==
    \E c \in Calls, d \in Calls :
        /\ Done(c) /\ reply[c].kind = "ok"
        /\ Done(d) /\ reply[d].kind = "timeout"
        /\ [i \in 1..Len(CallLog(d)) |-> CallLog(d)[i].msg] =
             << "Tool called: get-sol-token-price",
                "Arguments: {'address': 'X'}",
                "Request URL: https://pro-api.solscan.io/v2.0/token/price"
                  \o "?address=X",
                "Request Headers: {'token': 'test-token'}",
                "HTTP Request: GET https://pro-api.solscan.io/v2.0/token/price"
                  \o "?address=X \"HTTP/1.1 200 OK\"",
                "Request failed: " >>
        /\ \E i \in 1..Len(log), j \in 1..Len(log), k \in 1..Len(log) :
              i < j /\ j < k /\ log[i].call = c /\ log[j].call = d
              /\ log[k].call = c

\* a call that passes validation holds a client of its own from then on: no
\* two calls ever hold the same client, the GET of a call goes through the
\* client of that call, the client is open while the GET is in flight and
\* closed from the moment the block is left, on every path; a call that
\* ended in the validation text or in the raise of the else branch never
\* held a client.  When no call is in progress no client is open.
ClientScoped ==
    /\ \A c \in Calls :
          /\ (pc[c] \in {"idle", "enter"}) => client[c] = 0
          /\ (Raised(c) \/ Rejected(c)) => client[c] = 0
          /\ (pc[c] \in {"awaiting", "reading"})
             => (client[c] # 0 /\ client[c] \in open)
          /\ (pc[c] = "exit" \/ Attempted(c))
             => (client[c] # 0 /\ client[c] \notin open)
          /\ gets[c] > 0 => request[c].client = client[c]
          /\ \A d \in Calls \ {c} : client[c] # 0 => client[d] # client[c]
    /\ (\A c \in Calls : pc[c] \in {"idle", "done"}) => open = {}
    /\ open \subseteq {client[c] : c \in Calls} \ {0}

\* C9: the client is scoped to the call under every interleaving: acquired
\* after validation, used by no other call, released before the call
\* returns on every path; a call that is rejected by validation or names a
\* tool the catalog does not list never acquires a client.  When no call is
\* in progress no client is open.
C9_ClientPerCall ==
    /\ ClientScoped
    /\ \A c \in Calls : Unknown(c) => client[c] = 0

\* C10: every call completes.  With a transport that ends every GET by an
\* answer or by the timeout, a call that waits for its GET returns a
\* response, and the response after a timeout is the text of the error map.
C10_EventuallyCompletes ==
    /\ \A c \in Calls : Started(c) ~> Done(c)
    /\ \A c \in Calls :
          (pc[c] = "awaiting") ~> (Done(c) /\ Len(response[c]) = 1)
    /\ [](\A c \in Calls :
            (Done(c) /\ reply[c].kind = "timeout")
            => response[c] = OneText(ErrorText(c)))

\* the GET of a call timed out and the call has returned
C10_Witness ==
    \E c \in Calls :
        /\ Done(c)
        /\ reply[c].kind = "timeout"
        /\ request[c].timeout = 10
        /\ response[c] = OneText("{'error': 'timed out'}")
=============================================================================
